---- MODULE Spec2Model ----
(***************************************************************************)
(* LinearARD (cplxmodule/relevance/real.py): a linear layer with automatic *)
(* relevance detection.                                                    *)
(*                                                                         *)
(* Number representation.  Tensor entries are fixed-point integers:        *)
(*   - weights, biases, log-variances, log_alpha, penalty and layer        *)
(*     outputs are in units of 1e-3 ("milli");                             *)
(*   - variances (exp(log_sigma2), s2) are in units of 1e-6 ("micro");     *)
(*   - inputs and the 0/1 relevance mask are plain integers.               *)
(* The floating point specials inf, -inf and NaN are the values PosInf,    *)
(* NegInf and NaN, which lie outside the range of the finite values.       *)
(***************************************************************************)
EXTENDS Integers, Sequences, FiniteSets, TLC

\* ------------------------------------------------------------------ bounds
MaxIn == 2
MaxOut == 2

\* --------------------------------------------------------- float specials
PosInf == 2000000001
NegInf == -PosInf
NaN == PosInf + 1

IsFinite(a) == a # PosInf /\ a # NegInf /\ a # NaN

FNeg(a) == IF a = NaN THEN NaN ELSE -a

FAdd(a, b) ==
    IF a = NaN \/ b = NaN THEN NaN
    ELSE IF a = PosInf THEN (IF b = NegInf THEN NaN ELSE PosInf)
    ELSE IF a = NegInf THEN (IF b = PosInf THEN NaN ELSE NegInf)
    ELSE IF b = PosInf \/ b = NegInf THEN b
    ELSE a + b

FSub(a, b) == FAdd(a, FNeg(b))

\* a * k for an integer k > 0
FTimes(a, k) == IF IsFinite(a) THEN a * k ELSE a

\* a / 2
FHalf(a) == IF IsFinite(a) THEN a \div 2 ELSE a

\* torch.le on floats: a comparison with NaN is false
FLe(a, t) == a # NaN /\ a <= t

Abs(a) == IF a < 0 THEN -a ELSE a

\* a * k / 100000 for finite a and a constant k > 0 given in units of 1e-5,
\* split so that no intermediate product leaves the 32 bit range
MulE5(a, k) ==
    IF ~IsFinite(a) THEN a
    ELSE LET q == a \div 100000
             r == a % 100000
             r1 == r \div 100
             r2 == r % 100
         IN q * k + (r1 * k) \div 1000 + (r2 * k) \div 100000

\* round-to-nearest of a * b / 1000, symmetric in the sign
MulMilli(a, b) ==
    LET p == a * b
    IN IF p < 0 THEN -((500 - p) \div 1000) ELSE (p + 500) \div 1000

RECURSIVE SqrtSearch(_, _, _)
SqrtSearch(n, lo, hi) ==
    IF lo >= hi THEN lo
    ELSE LET mid == (lo + hi + 1) \div 2
         IN IF mid * mid <= n THEN SqrtSearch(n, mid, hi)
            ELSE SqrtSearch(n, lo, mid - 1)

\* torch.sqrt of a variance in micro units, result in milli units
Sqrt(n) == SqrtSearch(n, 0, IF n < 46340 THEN n ELSE 46340)

\* linear interpolation in a table given at the integers 0..8 (milli steps
\* of 1000); constant beyond 8
Interp(tab, a) ==
    LET k == a \div 1000
        f == a % 1000
    IN IF k >= 8 THEN tab[9]
       ELSE tab[k + 1] + ((tab[k + 2] - tab[k + 1]) * f) \div 1000

\* ------------------------------------------------------ elementary functions
\* |w| + 1e-12 in float32: the guard is absorbed by every non-zero magnitude
\* the model uses (>= 1e-3) and is the whole result for a zero weight.
TinyEps == -1
AddEps(m) == IF m = 0 THEN TinyEps ELSE m

\* torch.log of a magnitude in milli units (TinyEps stands for 1e-12)
Log(m) ==
    CASE m = 0 -> NegInf
      [] m = TinyEps -> -27631
      [] m = 1 -> -6908
      [] m = 6 -> -5116
      [] m = 7 -> -4962
      [] m = 500 -> -693
      [] m = 1000 -> 0
      [] m = 2000 -> 693

\* float32 exp overflows to inf above 88.72
ExpMax == 88722

\* torch.exp of a log-variance in milli units, result in micro units
Exp(l) ==
    CASE l = -10000 -> 45
      [] l = -5000 -> 6738
      [] l = 0 -> 1000000
      [] l = 3000 -> 20085537

\* log1p(exp(-a)) and sigmoid(a) at a = 0, 1, .., 8
Log1pExpNegTab == <<693, 313, 127, 49, 18, 7, 2, 1, 0>>
SigmoidTab == <<500, 731, 881, 953, 982, 993, 998, 999, 1000>>

\* log(1 + exp(x)): exp overflows first
Log1pExp(x) ==
    IF x = NaN THEN NaN
    ELSE IF x = NegInf THEN 0
    ELSE IF x > ExpMax THEN PosInf
    ELSE IF x >= 0 THEN x + Interp(Log1pExpNegTab, x)
    ELSE Interp(Log1pExpNegTab, -x)

\* a faulty variant: softplus as log(1 + exp(x)) on every input
softplus_naive(x) == Log1pExp(x)

\* F.softplus(x, beta=1, threshold=20): linear above the threshold
SoftplusThreshold == 20000
softplus(x) ==
    IF x = NaN THEN NaN
    ELSE IF x > SoftplusThreshold THEN x
    ELSE Log1pExp(x)

\* torch.sigmoid(x) = 1 / (1 + exp(-x)); 1 / inf = 0
sigmoid(x) ==
    IF x = NaN THEN NaN
    ELSE IF x = PosInf THEN 1000
    ELSE IF -x > ExpMax THEN 0
    ELSE IF x >= 0 THEN Interp(SigmoidTab, x)
    ELSE 1000 - Interp(SigmoidTab, -x)

\* ------------------------------------------------------------------ state
VARIABLES in_features, out_features, weight, bias, log_sigma2, training,
          rng, addr, ret, pristine

\* pristine: no optimizer update since construction or the last
\* reset_variational_parameters (a history variable)
vars == <<in_features, out_features, weight, bias, log_sigma2, training,
          rng, addr, ret, pristine>>

\* ------------------------------------------------------- parameter values
\* values nn.Linear's default initialisation can give, |w| < 1/sqrt(in)
InitWSeq == <<6, -500, 0>>
\* values an optimizer update can give
WSeq == <<0, 6, -500, 1000>>
LSSeq == <<-10000, 0, 3000>>
BSeq == <<250, -500>>
\* the wide range of log-variances, up to +-1e6
LSWide == <<-10000, 0, 3000, 1000000000, -1000000000, 20000, -90000>>
\* entries of the input vectors
XSeq == <<0, -2, 1>>
Thresholds == {0, 3000}

\* the rows x cols tensor that cycles through seq, starting at offset k
Pattern(seq, k, rows, cols) ==
    [i \in 1..rows |->
        [j \in 1..cols |-> seq[(((i - 1) * cols + (j - 1) + k) % Len(seq)) + 1]]]

Vector(seq, k, n) == [i \in 1..n |-> seq[((i - 1 + k) % Len(seq)) + 1]]

Offsets(seq) == 0..(Len(seq) - 1)

Filled(rows, cols, v) == [i \in 1..rows |-> [j \in 1..cols |-> v]]

RECURSIVE SumTo(_, _)
\* f[1] + ... + f[n]
SumTo(f, n) == IF n = 0 THEN 0 ELSE f[n] + SumTo(f, n - 1)

\* --------------------------------------------------------- random source
\* the generator: a full-period congruential step and the sample it yields
RngStates == 0..3
RngNext(s) == (5 * s + 3) % 4
Sample(s) == <<-1500, 500, 0, 1000>>[s + 1]

RECURSIVE RngAdvance(_, _)
RngAdvance(s, n) == IF n = 0 THEN s ELSE RngAdvance(RngNext(s), n - 1)

\* a faulty variant: one draw, broadcast over the elements
randn_like_scalar(t, s) ==
    [val |-> [i \in 1..Len(t) |-> Sample(s)], rng |-> RngAdvance(s, 1)]

\* torch.randn_like(t) for a vector t: one draw per element, in order
randn_like(t, s) ==
    [val |-> [i \in 1..Len(t) |-> Sample(RngAdvance(s, i - 1))],
     rng |-> RngAdvance(s, Len(t))]

\* ---------------------------------------------------------------- the layer
\* a faulty variant: the shape arguments in the wrong order
TensorLike_transposed(w) == Filled(Len(w[1]), Len(w), 0)

\* torch.Tensor(*self.weight.shape): the new tensor takes the shape of weight
TensorLike(w) == Filled(Len(w), Len(w[1]), 0)

\* t.uniform_(lo, hi) as the layer calls it, with lo = hi: the range is the
\* single point lo, so every entry becomes lo
uniform_(t, lo, hi) == [i \in 1..Len(t) |-> [j \in 1..Len(t[i]) |-> lo]]

\* F.linear(x, w, b): x @ w^T + b, b = <<>> for no bias
linear(x, w, b) ==
    [i \in 1..Len(w) |->
        SumTo([j \in 1..Len(x) |-> x[j] * w[i][j]], Len(x))
        + (IF b = <<>> THEN 0 ELSE b[i])]

\* a faulty variant: the value computed at construction, kept
log_alpha_cached ==
    [i \in 1..Len(weight) |-> [j \in 1..Len(weight[i]) |->
        FSub(-10000, FTimes(Log(AddEps(Abs(weight[i][j]))), 2))]]

log_alpha ==
    [i \in 1..Len(weight) |-> [j \in 1..Len(weight[i]) |->
        FSub(log_sigma2[i][j], FTimes(Log(AddEps(Abs(weight[i][j]))), 2))]]

\* k1, k2, k3 in units of 1e-5
k1 == 63576
k2 == 187320
k3 == 148695

penalty ==
    [i \in 1..Len(weight) |-> [j \in 1..Len(weight[i]) |->
        LET n_log_alpha == FNeg(log_alpha[i][j])
            sig == sigmoid(FSub(MulE5(n_log_alpha, k3), k2 \div 100))
        IN FAdd(FHalf(softplus(n_log_alpha)), MulE5(sig, k1))]]

\* a faulty variant: the noise is added whatever the mode
forward_always_noisy(input) ==
    LET mu == linear(input, weight, bias)
        x2 == [j \in 1..Len(input) |-> input[j] * input[j]]
        var == [i \in 1..Len(log_sigma2) |->
                   [j \in 1..Len(log_sigma2[i]) |-> Exp(log_sigma2[i][j])]]
        s2 == linear(x2, var, <<>>)
        noise == randn_like(s2, rng)
    IN [val |-> [i \in 1..Len(mu) |->
                    mu[i] + MulMilli(noise.val[i], Sqrt(s2[i]))],
        rng |-> noise.rng]

forward(input) ==
    LET mu == linear(input, weight, bias)
    IN IF ~training THEN [val |-> mu, rng |-> rng]
       ELSE LET x2 == [j \in 1..Len(input) |-> input[j] * input[j]]
                var == [i \in 1..Len(log_sigma2) |->
                           [j \in 1..Len(log_sigma2[i]) |-> Exp(log_sigma2[i][j])]]
                s2 == linear(x2, var, <<>>)
                noise == randn_like(s2, rng)
            IN [val |-> [i \in 1..Len(mu) |->
                            mu[i] + MulMilli(noise.val[i], Sqrt(s2[i]))],
                rng |-> noise.rng]

\* a faulty variant: torch.lt in place of torch.le
relevance_lt(threshold) ==
    [i \in 1..Len(weight) |-> [j \in 1..Len(weight[i]) |->
        IF log_alpha[i][j] # NaN /\ log_alpha[i][j] < threshold THEN 1 ELSE 0]]

\* a faulty variant: torch.ge in place of torch.le
relevance_ge(threshold) ==
    [i \in 1..Len(weight) |-> [j \in 1..Len(weight[i]) |->
        IF log_alpha[i][j] # NaN /\ log_alpha[i][j] >= threshold THEN 1 ELSE 0]]

\* torch.le(log_alpha, threshold).to(log_alpha): a 0/1 tensor
relevance(threshold) ==
    [i \in 1..Len(weight) |-> [j \in 1..Len(weight[i]) |->
        IF FLe(log_alpha[i][j], threshold) THEN 1 ELSE 0]]

numel(t) == Len(t) * Len(t[1])

TensorSum(t) == SumTo([i \in 1..Len(t) |-> SumTo(t[i], Len(t[i]))], Len(t))

id(name) == addr[name]

\* a faulty variant: the count of the relevant weights, not of the prunable ones
sparsity_n_relevant(threshold) ==
    << <<id("weight"), TensorSum(relevance(threshold))>> >>

sparsity(threshold) ==
    LET n_relevant == TensorSum(relevance(threshold))
    IN << <<id("weight"), numel(weight) - n_relevant>> >>

\* ------------------------------------------------------------------ actions
Call(op, arg, val) == [op |-> op, arg |-> arg, val |-> val, rng0 |-> rng]

\* LinearARD(in_features, out_features, bias)
Init ==
    /\ in_features \in 1..MaxIn
    /\ out_features \in 1..MaxOut
    /\ \E k \in Offsets(InitWSeq) :
          weight = Pattern(InitWSeq, k, out_features, in_features)
    /\ \E k \in Offsets(BSeq) : bias \in {<<>>, Vector(BSeq, k, out_features)}
    /\ log_sigma2 = uniform_(TensorLike(weight), -10000, -10000)
    /\ training = TRUE
    /\ rng \in RngStates
    /\ addr \in {[weight |-> 101, log_sigma2 |-> 102],
                 [weight |-> 102, log_sigma2 |-> 101]}
    /\ ret = [op |-> "__init__", arg |-> 0, val |-> 0, rng0 |-> rng]
    /\ pristine = TRUE

reset_variational_parameters ==
    /\ log_sigma2' = uniform_(log_sigma2, -10000, -10000)
    /\ ret' = Call("reset_variational_parameters", 0, 0)
    /\ pristine' = TRUE
    /\ UNCHANGED <<in_features, out_features, weight, bias, training, rng, addr>>

\* the external optimizer: an in-place update of all the parameters
Update(ls) ==
    /\ \E k \in Offsets(WSeq) :
          weight' = Pattern(WSeq, k, out_features, in_features)
    /\ \E k \in Offsets(ls) :
          log_sigma2' = Pattern(ls, k, out_features, in_features)
    /\ \E k \in Offsets(BSeq) :
          bias' = IF bias = <<>> THEN <<>> ELSE Vector(BSeq, k, out_features)
    /\ ret' = Call("step", 0, 0)
    /\ pristine' = FALSE
    /\ UNCHANGED <<in_features, out_features, training, rng, addr>>

OptimizerStep == Update(LSSeq)

OptimizerStepWide == Update(LSWide)

\* the external mode toggle, Module.train(mode)
Train(mode) ==
    /\ training' = mode
    /\ ret' = Call("train", mode, 0)
    /\ UNCHANGED <<in_features, out_features, weight, bias, log_sigma2, rng, addr,
                   pristine>>

Params == <<in_features, out_features, weight, bias, log_sigma2, training, addr,
            pristine>>

GetLogAlpha ==
    /\ ret' = Call("log_alpha", 0, log_alpha)
    /\ UNCHANGED <<Params, rng>>

GetPenalty ==
    /\ ret' = Call("penalty", 0, penalty)
    /\ UNCHANGED <<Params, rng>>

CallForward ==
    \E k \in Offsets(XSeq) :
        LET input == Vector(XSeq, k, in_features)
            out == forward(input)
        IN /\ ret' = Call("forward", input, out.val)
           /\ rng' = out.rng
           /\ UNCHANGED Params

\* a faulty variant: the mask is applied to the weight in place
CallRelevance_inplace ==
    \E t \in Thresholds :
        /\ ret' = Call("relevance", t, relevance(t))
        /\ weight' = [i \in 1..Len(weight) |-> [j \in 1..Len(weight[i]) |->
                          weight[i][j] * relevance(t)[i][j]]]
        /\ UNCHANGED <<in_features, out_features, bias, log_sigma2, training, addr,
                       pristine, rng>>

CallRelevance ==
    \E t \in Thresholds :
        /\ ret' = Call("relevance", t, relevance(t))
        /\ UNCHANGED <<Params, rng>>

CallSparsity ==
    \E t \in Thresholds :
        /\ ret' = Call("sparsity", t, sparsity(t))
        /\ UNCHANGED <<Params, rng>>

Next ==
    \/ reset_variational_parameters
    \/ OptimizerStep
    \/ \E mode \in BOOLEAN : Train(mode)
    \/ GetLogAlpha
    \/ GetPenalty
    \/ CallForward
    \/ CallRelevance
    \/ CallSparsity

Spec == Init /\ [][Next]_vars

\* the numerical range: updates over the wide range, then the derived values
NextWide ==
    \/ OptimizerStepWide
    \/ GetLogAlpha
    \/ GetPenalty

SpecWide == Init /\ [][NextWide]_vars

\* ================================================================ properties
Rows == 1..out_features
Cols == 1..in_features

\* log_sigma2 - 2 log(|W| + 1e-12) of one weight, from the current parameters
LogAlphaAt(i, j) == log_sigma2[i][j] - 2 * Log(AddEps(Abs(weight[i][j])))

\* the softplus-sigmoid approximation for one weight
PenaltyAt(i, j) ==
    LET u == -LogAlphaAt(i, j)
    IN softplus(u) \div 2 + MulE5(sigmoid(MulE5(u, k3) - k2 \div 100), k1)

\* input @ W^T + b for one output element
AffineAt(x, i) ==
    SumTo([j \in Cols |-> x[j] * weight[i][j]], in_features)
    + (IF bias = <<>> THEN 0 ELSE bias[i])

\* x^2 @ exp(log_sigma2)^T for one output element
VarianceAt(x, i) ==
    SumTo([j \in Cols |-> x[j] * x[j] * Exp(log_sigma2[i][j])], in_features)

IsMatrix(t) ==
    /\ DOMAIN t = Rows
    /\ \A i \in Rows : DOMAIN t[i] = Cols

RelevantCount(t) == Cardinality({p \in Rows \X Cols : LogAlphaAt(p[1], p[2]) <= t})

LayerOps == {"forward", "log_alpha", "penalty", "relevance", "sparsity"}

\* C1: in evaluation mode forward returns the plain affine transform
\* input @ W^T + b, adds no noise and leaves the random source as it was, so
\* the output depends on the input and the parameters only.
EvalForwardIsAffine ==
    (ret.op = "forward" /\ ~training) =>
        /\ DOMAIN ret.val = Rows
        /\ \A i \in Rows : ret.val[i] = AffineAt(ret.arg, i)
        /\ rng = ret.rng0

EvalForwardWitness ==
    /\ ret.op = "forward"
    /\ ~training
    /\ bias # <<>>
    /\ \E i \in Rows : AffineAt(ret.arg, i) # 0 /\ VarianceAt(ret.arg, i) > 0
    /\ rng # 0

\* C2: relevance(threshold) has the shape of W, every entry is 0 or 1, and an
\* entry is 1 exactly when the weight's log_alpha is <= threshold.
RelevanceIsThresholdMask ==
    ret.op = "relevance" =>
        /\ IsMatrix(ret.val)
        /\ IsMatrix(weight)
        /\ \A i \in Rows, j \in Cols :
              /\ ret.val[i][j] \in {0, 1}
              /\ ret.val[i][j] = 1 <=> LogAlphaAt(i, j) <= ret.arg

RelevanceBoundaryWitness ==
    /\ ret.op = "relevance"
    /\ \E i \in Rows, j \in Cols : LogAlphaAt(i, j) = ret.arg /\ ret.val[i][j] = 1
    /\ \E i \in Rows, j \in Cols : ret.val[i][j] = 0

\* C3: relevance is monotone in the threshold: a weight relevant under a
\* threshold is relevant under every larger one, and the prunable count of
\* sparsity never grows with the threshold.
RelevanceMonotone ==
    /\ ret.op = "relevance" =>
          \A t \in Thresholds :
              /\ t > ret.arg =>
                    \A i \in Rows, j \in Cols : ret.val[i][j] <= relevance(t)[i][j]
              /\ t < ret.arg =>
                    \A i \in Rows, j \in Cols : relevance(t)[i][j] <= ret.val[i][j]
    /\ ret.op = "sparsity" =>
          \A t \in Thresholds :
              /\ t > ret.arg => sparsity(t)[1][2] <= ret.val[1][2]
              /\ t < ret.arg => ret.val[1][2] <= sparsity(t)[1][2]

RelevanceGrowsWitness ==
    /\ ret.op = "sparsity"
    /\ \E t \in Thresholds :
          /\ t > ret.arg
          /\ sparsity(t)[1][2] < ret.val[1][2]
          /\ \E i \in Rows, j \in Cols :
                relevance(ret.arg)[i][j] = 1 /\ relevance(t)[i][j] = 1

\* C4: sparsity(threshold) returns one pair (key, count): count is
\* numel(W) minus the number of relevant weights, between 0 and numel(W), and
\* key is the identity of the W tensor, which no step changes.
SparsityCountAndKey ==
    /\ [](ret.op = "sparsity" =>
            /\ Len(ret.val) = 1
            /\ ret.val[1][1] = addr.weight
            /\ ret.val[1][2] = in_features * out_features - RelevantCount(ret.arg)
            /\ ret.val[1][2] >= 0
            /\ ret.val[1][2] <= in_features * out_features)
    /\ [][addr' = addr]_vars

SparsityWitness ==
    /\ ret.op = "sparsity"
    /\ ~pristine
    /\ ret.val[1][2] > 0
    /\ ret.val[1][2] < in_features * out_features

\* C5: forward, log_alpha, penalty, relevance and sparsity change none of W,
\* b, log_sigma2 and the mode; in a sequence of such calls W and b change
\* only by an optimizer update and the mode only by the external toggle.
LayerOpsPreserveParameters ==
    [][/\ ret'.op \in LayerOps =>
             UNCHANGED <<weight, bias, log_sigma2, training>>
       /\ (weight' # weight \/ bias' # bias) => ret'.op = "step"
       /\ log_sigma2' # log_sigma2 =>
             ret'.op \in {"step", "reset_variational_parameters"}
       /\ training' # training => ret'.op = "train"]_vars

LayerOpsWitness ==
    /\ ret.op = "relevance"
    /\ ~pristine
    /\ \E i \in Rows, j \in Cols : ret.val[i][j] = 0 /\ weight[i][j] # 0

\* C6: log_alpha, penalty, relevance and sparsity are computed from the
\* parameter values current at the query, also after optimizer updates.
QueriesAreFresh ==
    /\ ret.op = "log_alpha" =>
          \A i \in Rows, j \in Cols : ret.val[i][j] = LogAlphaAt(i, j)
    /\ ret.op = "penalty" =>
          \A i \in Rows, j \in Cols : ret.val[i][j] = PenaltyAt(i, j)
    /\ ret.op = "relevance" =>
          \A i \in Rows, j \in Cols :
              ret.val[i][j] = IF LogAlphaAt(i, j) <= ret.arg THEN 1 ELSE 0
    /\ ret.op = "sparsity" =>
          ret.val[1][2] = in_features * out_features - RelevantCount(ret.arg)

FreshAfterUpdateWitness ==
    /\ ret.op = "penalty"
    /\ ~pristine
    /\ \E i \in Rows, j \in Cols : log_sigma2[i][j] # -10000 /\ weight[i][j] = 1000

\* C7: W has the shape [out_features, in_features]; log_sigma2 has the
\* shape of W in every state, and every entry of it is -10 at construction.
ConstructionShapes ==
    /\ IsMatrix(weight)
    /\ IsMatrix(log_sigma2)
    /\ ret.op = "__init__" =>
          \A i \in Rows, j \in Cols : log_sigma2[i][j] = -10000

ConstructionWitness ==
    /\ ret.op = "__init__"
    /\ in_features # out_features
    /\ bias # <<>>

\* C8: in training mode forward draws one sample per output element, in
\* order, and its output is a function of the input, the parameters and the
\* state of the random source at the call; in evaluation mode, and in every
\* other operation, nothing is drawn.
ForwardDrawsPerElement ==
    [][/\ (ret'.op = "forward" /\ training) =>
             /\ rng' = RngAdvance(rng, out_features)
             /\ \A i \in Rows :
                   ret'.val[i] = AffineAt(ret'.arg, i)
                       + MulMilli(Sample(RngAdvance(rng, i - 1)),
                                  Sqrt(VarianceAt(ret'.arg, i)))
       /\ (ret'.op = "forward" /\ ~training) => rng' = rng
       /\ ret'.op # "forward" => rng' = rng]_vars

TrainingForwardWitness ==
    /\ ret.op = "forward"
    /\ training
    /\ out_features > 1
    /\ ~pristine
    /\ \A i \in Rows : ret.val[i] # AffineAt(ret.arg, i)

\* C9: right after construction or reset_variational_parameters, before any
\* optimizer update, relevance marks every weight 1 and sparsity reports a
\* prunable count of 0, at the thresholds 0 and 3.
InitiallyEverythingRelevant ==
    pristine =>
        /\ ret.op = "relevance" =>
              \A i \in Rows, j \in Cols : ret.val[i][j] = 1
        /\ ret.op = "sparsity" => ret.val[1][2] = 0

\* C10: penalty and log_alpha are finite for every weight, for log_alpha of
\* magnitude 1e6 and for a weight that is exactly zero, and penalty is
\* softplus(-log_alpha)/2 + 0.63576 sigmoid(1.48695 (-log_alpha) - 1.87320).
PenaltyFinite ==
    /\ \A i \in Rows, j \in Cols : IsFinite(log_alpha[i][j])
    /\ ret.op = "penalty" =>
          \A i \in Rows, j \in Cols :
              /\ IsFinite(ret.val[i][j])
              /\ ret.val[i][j] = PenaltyAt(i, j)

PenaltyExtremesWitness ==
    /\ ret.op = "penalty"
    /\ \E i \in Rows, j \in Cols : LogAlphaAt(i, j) >= 1000000000
    /\ \E i \in Rows, j \in Cols : LogAlphaAt(i, j) <= -999000000
    /\ \E i \in Rows, j \in Cols : weight[i][j] = 0

====
